---------------------------- MODULE Spec2Model ----------------------------
(***************************************************************************)
(* A model of the backend-connectivity helpers of MaxScale:                *)
(*   server/core/mysql_utils.cc   mxs_mysql_real_connect,                  *)
(*                                mxs_mysql_trim_quotes,                   *)
(*                                mxs_mysql_name_to_pcre, execute_query,   *)
(*                                dbg_decode_response                      *)
(*   maxutils/maxbase/src/host.cc maxbase::Host and its validators         *)
(*                                                                         *)
(* Text is modelled as a sequence of one-character strings; a C string in  *)
(* a buffer ends at the first NUL.  Each unit of the code has its own      *)
(* specification (SpecConnect, SpecDecode, ...): the variable "unit" names *)
(* the unit a behaviour exercises, so that Spec is their disjoint union.   *)
(***************************************************************************)
EXTENDS Integers, Sequences, FiniteSets, TLC

VARIABLES
    unit,               \* the unit of the code this behaviour exercises
    \* ---- SERVER object and the calls of mxs_mysql_real_connect made on it
    srv_address,        \* server->address
    srv_port,           \* server->port
    srv_extra_port,     \* server->extra_port
    srv_ssl,            \* server->ssl().config()
    srv_warn,           \* server->warn_ssl_not_enabled
    srv_charset,        \* server->charset
    local_address,      \* config_get_global_options()->local_address is set
    calls,              \* one record per finished call, oldest first
    \* ---- dbg_decode_response(pPacket)
    dec_packets,        \* the packets the buffer was assembled from
    dec_buf,            \* the bytes of pPacket
    dec_pc,             \* "loop": at the while test; "done": returned
    nRemaining,         \* int nRemaining
    dec_it,             \* the offset of the iterator 'it' from b.begin()
    dec_out,            \* the records written to ss, in order
    dec_reads,          \* the buffer positions (from 1) read so far
    dec_stray,          \* a read outside the array 'error' has happened
    \* ---- maxbase::Host
    h_input,            \* the constructor arguments
    h_pc,               \* "new", "built", "printed", "reparsed"
    host,               \* the Host built from h_input
    h_text,             \* what operator<< wrote for host
    host2,              \* Host(h_text)
    \* ---- mxs_mysql_trim_quotes(s)
    tq_in,              \* the C string passed in
    tq_pc,              \* "call" or "done"
    tq_s,               \* the buffer s, with its terminator
    tq_ret,             \* the value returned
    \* ---- maxscale::execute_query
    q_conn,             \* the connection's last error: mysql_errno, mysql_error
    q_errmsg,           \* the caller's std::string that errmsg_out may point to
    q_errno,            \* the caller's unsigned int that errno_out may point to
    q_last,             \* the last call: its arguments, outcome and result
    \* ---- mxs_mysql_name_to_pcre(pcre, mysql, approach)
    p_mysql,            \* the pattern
    p_approach,         \* MXS_PCRE_QUOTE_VERBATIM or MXS_PCRE_QUOTE_WILDCARD
    p_pc,               \* "call" or "done"
    p_pcre,             \* the output buffer
    p_written,          \* the positions of p_pcre the call wrote
    p_rv                \* the value returned

connVars == <<srv_address, srv_port, srv_extra_port, srv_ssl, srv_warn,
              srv_charset, local_address, calls>>
decVars == <<dec_packets, dec_buf, dec_pc, nRemaining, dec_it, dec_out,
             dec_reads, dec_stray>>
hostVars == <<h_input, h_pc, host, h_text, host2>>
trimVars == <<tq_in, tq_pc, tq_s, tq_ret>>
queryVars == <<q_conn, q_errmsg, q_errno, q_last>>
pcreVars == <<p_mysql, p_approach, p_pc, p_pcre, p_written, p_rv>>

vars == <<unit, connVars, decVars, hostVars, trimVars, queryVars, pcreVars>>

\* The C string terminator.
NUL == "NUL"

-----------------------------------------------------------------------------
(***************************************************************************)
(* mxs_mysql_real_connect                                                  *)
(***************************************************************************)

\* How many calls of mxs_mysql_real_connect one behaviour makes on a server.
MaxCalls == 3

\* The values drawn for server->port, a set server->extra_port and the
\* character set number a session reports.
PrimaryPorts == {3306}
ExtraPorts == {0, 3307}
CharsetNumbers == {8, 33}

HostAddress == <<"d", "b", "1">>
SocketAddress == <<"/", "t", "m", "p", "/", "s">>

SslConfigs ==
    { [present |-> FALSE, empty |-> TRUE],      \* no configuration object
      [present |-> TRUE,  empty |-> TRUE],      \* key, cert and ca all empty
      [present |-> TRUE,  empty |-> FALSE] }

\* bool have_ssl = ssl && !ssl->empty();
HaveSsl(ssl) == ssl.present /\ ~ssl.empty

\* server->address[0] == '/'
IsSocketAddress(address) == Len(address) > 0 /\ address[1] = "/"

\* A retry that does not look at the outcome of the first attempt.
TryExtraPort_Always(connected, extra_port) == extra_port > 0

\* if (!mysql && extra_port > 0)
TryExtraPort(connected, extra_port) == ~connected /\ extra_port > 0

\* The mysql_real_connect calls of one mxs_mysql_real_connect, in order.
\* ok1, ok2: whether the first and the second mysql_real_connect succeed.
Attempts(address, port, extra_port, ok1, ok2) ==
    IF IsSocketAddress(address)
    THEN << [via |-> "socket", port |-> 0, ok |-> ok1] >>
    ELSE LET first == [via |-> "port", port |-> port, ok |-> ok1]
         IN  IF TryExtraPort(ok1, extra_port)
             THEN << first, [via |-> "port", port |-> extra_port, ok |-> ok2] >>
             ELSE << first >>

\* A check of the cipher that is left out.
TlsRejected_Never(have_ssl, cipher) == FALSE

\* if (have_ssl && mysql_get_ssl_cipher(con) == NULL)
TlsRejected(have_ssl, cipher) == have_ssl /\ ~cipher

\* An error logged whatever the flag says.
EmitsSslError_Always(warn) == TRUE

\* if (server->warn_ssl_not_enabled) { ...; MXS_ERROR(...) }
EmitsSslError(warn) == warn

\* The messages one call logs, in order.
CallLog(bindFailed, attempts, connected, rejected, warn) ==
    (IF bindFailed THEN << "local_address" >> ELSE << >>)
    \o (IF Len(attempts) = 2 THEN << "extra_port" >> ELSE << >>)
    \o (IF connected /\ rejected /\ EmitsSslError(warn)
        THEN << "ssl_not_enabled" >> ELSE << >>)

\* SERVER::warn_ssl_not_enabled as a SERVER is constructed: the flag is set.
WarnSslNotEnabledDefault == TRUE

InitConnect ==
    /\ srv_address \in {HostAddress, SocketAddress}
    /\ srv_port \in PrimaryPorts
    /\ srv_extra_port \in ExtraPorts
    /\ srv_ssl \in SslConfigs
    /\ srv_warn = WarnSslNotEnabledDefault
    /\ srv_charset = 0
    /\ local_address \in BOOLEAN
    /\ calls = << >>

IdleConnect ==
    /\ srv_address = HostAddress
    /\ srv_port \in PrimaryPorts
    /\ srv_extra_port = 0
    /\ srv_ssl = [present |-> FALSE, empty |-> TRUE]
    /\ srv_warn = WarnSslNotEnabledDefault
    /\ srv_charset = 0
    /\ local_address = FALSE
    /\ calls = << >>

\* One call of mxs_mysql_real_connect(con, server, user, passwd).
RealConnect ==
    /\ unit = "connect"
    /\ Len(calls) < MaxCalls
    /\ \E bindOk \in BOOLEAN, ok1 \in BOOLEAN, ok2 \in BOOLEAN,
          cipherGiven \in BOOLEAN, cs \in CharsetNumbers :
         LET have_ssl  == HaveSsl(srv_ssl)
             bindFailed == local_address /\ ~bindOk
             attempts  == Attempts(srv_address, srv_port, srv_extra_port, ok1, ok2)
             connected == attempts[Len(attempts)].ok
             \* a session negotiates a cipher only when mysql_ssl_set was called
             cipher    == connected /\ have_ssl /\ cipherGiven
             rejected  == connected /\ TlsRejected(have_ssl, cipher)
         IN  \* outcomes the code never looks at are not drawn twice
             /\ (local_address \/ bindOk)
             /\ (Len(attempts) = 2 \/ ok2)
             /\ ((connected /\ have_ssl) \/ cipherGiven)
             /\ (connected \/ cs = 8)
             /\ srv_charset' = IF connected THEN cs ELSE srv_charset
             /\ srv_warn' = IF rejected /\ EmitsSslError(srv_warn)
                            THEN FALSE ELSE srv_warn
             /\ calls' = Append(calls,
                   [ tls_set   |-> have_ssl,
                     attempts  |-> attempts,
                     connected |-> connected,
                     cipher    |-> cipher,
                     warn_was  |-> srv_warn,
                     log       |-> CallLog(bindFailed, attempts, connected,
                                           rejected, srv_warn),
                     ret       |-> IF connected /\ ~rejected THEN "con" ELSE "NULL" ])
    /\ UNCHANGED <<unit, srv_address, srv_port, srv_extra_port, srv_ssl, local_address>>
    /\ UNCHANGED <<decVars, hostVars, trimVars, queryVars, pcreVars>>

NextConnect == RealConnect

\* A call whose transport connect succeeded with TLS configured and whose
\* session reports no cipher.
TlsPolicyFailure(c) == c.tls_set /\ c.connected /\ ~c.cipher

\* How many times message m was logged by the calls made so far.
RECURSIVE CountLogged(_, _)
CountLogged(cs, m) ==
    IF cs = << >> THEN 0
    ELSE Cardinality({k \in DOMAIN Head(cs).log : Head(cs).log[k] = m})
         + CountLogged(Tail(cs), m)

\* C1: a call made with TLS material configured and non-empty returns a live
\* connection only if the established session reports a negotiated cipher,
\* whichever attempt (primary port, extra port, unix socket) connected.
C1_TlsEnforced ==
    \A i \in DOMAIN calls :
        (calls[i].tls_set /\ calls[i].ret # "NULL") =>
            (calls[i].connected /\ calls[i].cipher)

\* C1 witness: TLS configured, the extra-port attempt connected, the session
\* has no cipher, and the call returned NULL.
C1_Witness ==
    \E i \in DOMAIN calls :
        /\ TlsPolicyFailure(calls[i])
        /\ Len(calls[i].attempts) = 2
        /\ calls[i].ret = "NULL"

\* C2: with a socket address exactly one attempt is made, via the socket path;
\* otherwise the primary port is tried first and the extra port at most once,
\* only after the primary attempt failed and only when extra_port > 0.
C2_AttemptOrder ==
    \A i \in DOMAIN calls :
        LET a == calls[i].attempts
        IN  IF IsSocketAddress(srv_address)
            THEN Len(a) = 1 /\ a[1].via = "socket"
            ELSE /\ Len(a) \in {1, 2}
                 /\ \A k \in DOMAIN a : a[k].via = "port"
                 /\ a[1].port = srv_port
                 /\ a[1].ok => Len(a) = 1
                 /\ Len(a) = 2 => /\ ~a[1].ok
                                  /\ srv_extra_port > 0
                                  /\ a[2].port = srv_extra_port

\* C2 witness: a failed primary-port attempt followed by a successful
\* extra-port attempt.
C2_Witness ==
    \E i \in DOMAIN calls :
        /\ Len(calls[i].attempts) = 2
        /\ ~calls[i].attempts[1].ok
        /\ calls[i].attempts[2].ok
        /\ calls[i].ret = "con"

\* C3: over the calls made on one server the TLS error is logged at most once:
\* a TLS-policy failure logs it exactly when no earlier call failed that way,
\* it clears the flag, and every such call returns NULL.
C3_WarnOnce ==
    /\ CountLogged(calls, "ssl_not_enabled") <= 1
    /\ \A i \in DOMAIN calls :
          TlsPolicyFailure(calls[i]) =>
             /\ calls[i].ret = "NULL"
             /\ ~srv_warn
             /\ ("ssl_not_enabled" \in {calls[i].log[k] : k \in DOMAIN calls[i].log})
                  <=> (\A j \in 1..(i - 1) : ~TlsPolicyFailure(calls[j]))

\* C3 witness: two TLS-policy failures on the same server, the second silent.
C3_Witness ==
    \E i, j \in DOMAIN calls :
        /\ i < j
        /\ TlsPolicyFailure(calls[i])
        /\ TlsPolicyFailure(calls[j])
        /\ calls[j].log = << >>

-----------------------------------------------------------------------------
(***************************************************************************)
(* dbg_decode_response                                                     *)
(***************************************************************************)

MYSQL_HEADER_LEN == 4

\* How many packets a buffer is assembled from, the longest payload, and how
\* many bytes may be missing from the end of the buffer.
MaxPackets == 2
MaxPayload == 10
MaxTrunc == 3

\* The first payload bytes the decoder tells apart, and one it does not.
CommandBytes == {0, 255, 251, 3}

\* Payload lengths of the packets drawn; 0 is a header with no payload.
PayloadLens == {0, 1, 2, 3, 8, 9, MaxPayload}

\* What a read past the end of the buffer or of an array yields.
GarbageBytes == {0, 255}

\* The payload of a packet: the command byte, then bytes that differ from
\* one position to the next.
PayloadOf(cmd, len) == [k \in 1..len |-> IF k = 1 THEN cmd ELSE 16 + k]

\* The wire form of a packet: 3 bytes of little-endian length, the sequence
\* number, the payload.
PacketBytes(p) ==
    << p.len % 256, (p.len \div 256) % 256, (p.len \div 65536) % 256, p.no >>
    \o PayloadOf(p.cmd, p.len)

RECURSIVE Concat(_)
Concat(ps) == IF ps = << >> THEN << >> ELSE PacketBytes(Head(ps)) \o Concat(Tail(ps))

PacketSeqs ==
    UNION { [1..n -> [len : PayloadLens, cmd : CommandBytes]] : n \in 0..MaxPackets }

\* MYSQL_GET_PAYLOAD_LEN(header): gw_mysql_get_byte3
MYSQL_GET_PAYLOAD_LEN(header) == header[1] + 256 * header[2] + 65536 * header[3]

\* MYSQL_GET_PACKET_NO(header)
MYSQL_GET_PACKET_NO(header) == header[4]

\* MYSQL_GET_COMMAND(header)
MYSQL_GET_COMMAND(header) == header[5]

\* gw_mysql_get_byte2
gw_mysql_get_byte2(lo, hi) == lo + 256 * hi

\* while (nRemaining > MYSQL_HEADER_LEN + 1)
LoopTest(n) == n > MYSQL_HEADER_LEN + 1

\* switch (command)
CommandName(command) ==
    CASE command = 0   -> "OK"
      [] command = 255 -> "ERR"
      [] command = 251 -> "GET_MORE_CLIENT_DATA"
      [] OTHER         -> "Result Set"

\* The byte at position pos (from 1) of the buffer; g when there is none.
ByteAt(buf, pos, g) == IF pos \in 1..Len(buf) THEN buf[pos] ELSE g

\* The buffer positions std::copy(it, end, error + 1) reads, 'it' being at
\* offset 'at': payload_len - 1 bytes.  With payload_len = 0 the count,
\* sizeof(error) - 1, wraps and the iterator runs off the end of the buffer.
ErrCopyReads(buf, at, payload_len) ==
    IF payload_len = 0
    THEN (at + 1) .. (Len(buf) + 1)
    ELSE (at + 1) .. (at + payload_len - 1)

\* error[k], k >= 1, after the copy: the byte 'it' + (k - 1) of the buffer
\* for k inside the array, anything for k outside it.
ErrorAt(buf, at, payload_len, k, g) ==
    IF k < payload_len THEN ByteAt(buf, at + k, g) ELSE g

\* The bytes ss.write(pMessage, message_len) writes: none when message_len
\* is not positive.
MessageOf(buf, at, payload_len, g) ==
    LET message_index == 1 + 2 + 1 + 5
        message_len == payload_len - message_index
    IN  IF message_len <= 0 THEN << >>
        ELSE [k \in 1..message_len |->
                 ErrorAt(buf, at, payload_len, message_index + k - 1, g)]

InitDecode ==
    /\ dec_packets \in PacketSeqs
    /\ \E t \in 0..MaxTrunc :
          LET whole == Concat([i \in DOMAIN dec_packets |->
                                  [len |-> dec_packets[i].len,
                                   cmd |-> dec_packets[i].cmd,
                                   no  |-> i - 1]])
          IN  /\ t <= Len(whole)
              /\ dec_buf = SubSeq(whole, 1, Len(whole) - t)
    /\ dec_pc = "loop"
    /\ nRemaining = Len(dec_buf)
    /\ dec_it = 0
    /\ dec_out = << >>
    /\ dec_reads = {}
    /\ dec_stray = FALSE

IdleDecode ==
    /\ dec_packets = << >>
    /\ dec_buf = << >>
    /\ dec_pc = "done"
    /\ nRemaining = 0
    /\ dec_it = 0
    /\ dec_out = << >>
    /\ dec_reads = {}
    /\ dec_stray = FALSE

\* One iteration of the while loop.
DecodeIter ==
    /\ unit = "decode"
    /\ dec_pc = "loop"
    /\ LoopTest(nRemaining)
    /\ \E g \in GarbageBytes :
         LET start == dec_it
             \* std::copy(it, end, header): MYSQL_HEADER_LEN + 1 bytes
             header == [k \in 1..(MYSQL_HEADER_LEN + 1) |-> ByteAt(dec_buf, start + k, g)]
             headerReads == (start + 1) .. (start + MYSQL_HEADER_LEN + 1)
             at == start + MYSQL_HEADER_LEN + 1
             payload_len == MYSQL_GET_PAYLOAD_LEN(header)
             packet_no == MYSQL_GET_PACKET_NO(header)
             command == MYSQL_GET_COMMAND(header)
             isErr == CommandName(command) = "ERR"
             \* error[0] = *it, then the copy
             errReads == {at + 1} \cup ErrCopyReads(dec_buf, at, payload_len)
             reads == IF isErr THEN headerReads \cup errReads ELSE headerReads
             \* gw_mysql_get_byte2(&error[1]) reads error[1] and error[2]
             stray == isErr /\ payload_len < 3
             usesGarbage == \/ \E p \in reads : p > Len(dec_buf)
                            \/ stray
         IN  /\ (usesGarbage \/ g = 0)
             /\ dec_reads' = dec_reads \cup reads
             /\ dec_stray' = (dec_stray \/ stray)
             /\ dec_out' = Append(dec_out,
                   IF isErr
                   THEN [no |-> packet_no, len |-> payload_len, cmd |-> "ERR",
                         code |-> gw_mysql_get_byte2(
                                      ErrorAt(dec_buf, at, payload_len, 1, g),
                                      ErrorAt(dec_buf, at, payload_len, 2, g)),
                         msg |-> MessageOf(dec_buf, at, payload_len, g)]
                   ELSE [no |-> packet_no, len |-> payload_len,
                         cmd |-> CommandName(command), code |-> 0, msg |-> << >>])
             \* it = std::next(start, MYSQL_HEADER_LEN + payload_len)
             /\ dec_it' = start + MYSQL_HEADER_LEN + payload_len
             /\ nRemaining' = nRemaining - MYSQL_HEADER_LEN - payload_len
    /\ UNCHANGED <<unit, dec_packets, dec_buf, dec_pc>>
    /\ UNCHANGED <<connVars, hostVars, trimVars, queryVars, pcreVars>>

\* The loop test fails: b.release(); rv = ss.str(); return rv.c_str();
DecodeReturn ==
    /\ unit = "decode"
    /\ dec_pc = "loop"
    /\ ~LoopTest(nRemaining)
    /\ dec_pc' = "done"
    /\ UNCHANGED <<unit, dec_packets, dec_buf, nRemaining, dec_it, dec_out,
                   dec_reads, dec_stray>>
    /\ UNCHANGED <<connVars, hostVars, trimVars, queryVars, pcreVars>>

NextDecode == DecodeIter \/ DecodeReturn

\* The buffer is a concatenation of complete packets, each with a payload of
\* at least one byte.
WellFormed ==
    /\ dec_buf = Concat([i \in DOMAIN dec_packets |->
                            [len |-> dec_packets[i].len,
                             cmd |-> dec_packets[i].cmd,
                             no  |-> i - 1]])
    /\ \A i \in DOMAIN dec_packets : dec_packets[i].len >= 1

\* C4: whatever the buffer holds, the decoder reads no byte at or beyond the
\* end of the buffer and none outside the copy of the payload it made.
C4_NoOutOfBoundsRead ==
    /\ \A p \in dec_reads : p \in 1..Len(dec_buf)
    /\ ~dec_stray

\* C5: a concatenation of complete packets decodes to exactly one record per
\* packet, in order, with the packet's sequence number, payload length and
\* classification, and no byte is left undecoded.
C5_OneRecordPerPacket ==
    (dec_pc = "done" /\ WellFormed) =>
        /\ Len(dec_out) = Len(dec_packets)
        /\ \A i \in DOMAIN dec_packets :
              /\ dec_out[i].no = i - 1
              /\ dec_out[i].len = dec_packets[i].len
              /\ dec_out[i].cmd = CommandName(dec_packets[i].cmd)
        /\ nRemaining = 0

-----------------------------------------------------------------------------
(***************************************************************************)
(* maxbase::Host                                                           *)
(***************************************************************************)

Digits == {"0", "1", "2", "3", "4", "5", "6", "7", "8", "9"}
HexLetters == {"a", "b", "c", "d", "e", "f", "A", "B", "C", "D", "E", "F"}
Letters ==
    {"a", "b", "c", "d", "e", "f", "g", "h", "i", "j", "k", "l", "m",
     "n", "o", "p", "q", "r", "s", "t", "u", "v", "w", "x", "y", "z",
     "A", "B", "C", "D", "E", "F", "G", "H", "I", "J", "K", "L", "M",
     "N", "O", "P", "Q", "R", "S", "T", "U", "V", "W", "X", "Y", "Z"}
\* isspace in the "C" locale (\v is not written here)
Spaces == {" ", "\t", "\n", "\r", "\f"}

isdigit(ch) == ch \in Digits
isxdigit(ch) == ch \in Digits \cup HexLetters
isalnum(ch) == ch \in Digits \cup Letters
isspace(ch) == ch \in Spaces

\* std::count(begin(s), end(s), ch)
Count(s, ch) == Cardinality({k \in DOMAIN s : s[k] = ch})

\* s.front() and s.back(); of an empty std::string, the terminator
Front(s) == IF s = << >> THEN NUL ELSE s[1]
Back(s) == IF s = << >> THEN NUL ELSE s[Len(s)]

\* std::find(begin(s), end(s), ch): the index of the first ch, Len(s) + 1
\* (the end) when there is none
Find(s, ch) ==
    IF \E k \in DOMAIN s : s[k] = ch
    THEN CHOOSE k \in DOMAIN s : s[k] = ch /\ \A j \in 1..(k - 1) : s[j] # ch
    ELSE Len(s) + 1

\* maxbase::trimmed_copy: the text without its leading and trailing whitespace
trimmed_copy(s) ==
    IF \A k \in DOMAIN s : isspace(s[k]) THEN << >>
    ELSE LET first == CHOOSE k \in DOMAIN s :
                          ~isspace(s[k]) /\ \A j \in 1..(k - 1) : isspace(s[j])
             last  == CHOOSE k \in DOMAIN s :
                          ~isspace(s[k]) /\ \A j \in (k + 1)..Len(s) : isspace(s[j])
         IN  SubSeq(s, first, last)

is_valid_ipv4(ip) ==
    /\ \A k \in DOMAIN ip : ip[k] \in Digits \cup {"."}
    /\ Len(ip) <= 15 /\ Len(ip) >= 7
    /\ Count(ip, ".") = 3

is_valid_ipv6(ip) ==
    /\ Count(ip, ":") >= 2
    /\ \A k \in DOMAIN ip : isxdigit(ip[k]) \/ ip[k] = ":" \/ ip[k] = "."
    /\ Len(ip) <= 45 /\ Len(ip) >= 2

is_valid_hostname(hn) ==
    /\ \A k \in DOMAIN hn : isalnum(hn[k]) \/ hn[k] = "_" \/ hn[k] = "."
    /\ Front(hn) # "_"
    /\ Len(hn) <= 253 /\ Len(hn) > 0

is_valid_socket(addr) ==
    /\ Front(addr) = "/"
    /\ Back(addr) # "/"

\* A port check without its upper limit.
is_valid_port_NoUpperLimit(port) == 0 < port

is_valid_port(port) == 0 < port /\ port < 65536

\* Host::InvalidPort, the value of m_port until a constructor sets it
InvalidPort == -1

\* Host::set_type: the value of m_type after the call, m_type being Invalid
\* before it
set_type(address, port, port_string_specified) ==
    IF is_valid_socket(address)
    THEN IF ~port_string_specified THEN "UnixDomainSocket" ELSE "Invalid"
    ELSE IF is_valid_port(port)
         THEN IF is_valid_ipv4(address) THEN "IPV4"
              ELSE IF is_valid_ipv6(address) THEN "IPV6"
              ELSE IF is_valid_hostname(address) THEN "HostName"
              ELSE "Invalid"
         ELSE "Invalid"

DigitValue(ch) ==
    CASE ch = "0" -> 0 [] ch = "1" -> 1 [] ch = "2" -> 2 [] ch = "3" -> 3
      [] ch = "4" -> 4 [] ch = "5" -> 5 [] ch = "6" -> 6 [] ch = "7" -> 7
      [] ch = "8" -> 8 [] ch = "9" -> 9

DigitChar(d) ==
    CASE d = 0 -> "0" [] d = 1 -> "1" [] d = 2 -> "2" [] d = 3 -> "3"
      [] d = 4 -> "4" [] d = 5 -> "5" [] d = 6 -> "6" [] d = 7 -> "7"
      [] d = 8 -> "8" [] d = 9 -> "9"

RECURSIVE DecimalValue(_, _)
DecimalValue(digits, acc) ==
    IF digits = << >> THEN acc
    ELSE DecimalValue(Tail(digits), 10 * acc + DigitValue(Head(digits)))

\* std::atoi of a text of digits.  The port texts drawn below have at most
\* 5 digits, far from the 10 at which an int overflows.
atoi(digits) == DecimalValue(digits, 0)

RECURSIVE NaturalText(_)
NaturalText(n) ==
    IF n < 10 THEN << DigitChar(n) >>
    ELSE NaturalText(n \div 10) \o << DigitChar(n % 10) >>

\* os << int
IntText(n) == IF n < 0 THEN << "-" >> \o NaturalText(-n) ELSE NaturalText(n)

\* The members a Host has before a constructor body runs.
DefaultHost(org) ==
    [org_input |-> org, address |-> << >>, port |-> InvalidPort, type |-> "Invalid"]

\* The parsing of Host::Host(const std::string&), the input not empty:
\* m_address, port_part and whether 'ite' ended at end(input).
ParseInput(input) ==
    IF input[1] = "["
    THEN LET last == Find(input, "]")
             address == SubSeq(input, 2, last - 1)
         IN  IF last # Len(input) + 1
             THEN IF /\ last + 1 # Len(input) + 1
                     /\ input[last + 1] = ":"
                     /\ last + 2 # Len(input) + 1
                  THEN [address |-> address,
                        port_part |-> SubSeq(input, last + 2, Len(input)),
                        consumed |-> TRUE]
                  ELSE [address |-> address, port_part |-> << >>,
                        consumed |-> (last + 1 = Len(input) + 1)]
             ELSE \* no ']': ite is left one past the '['
                  [address |-> address, port_part |-> << >>,
                   consumed |-> (2 = Len(input) + 1)]
    ELSE IF is_valid_ipv6(input)
         THEN [address |-> input, port_part |-> << >>, consumed |-> TRUE]
         ELSE LET colon == Find(input, ":")
                  address == SubSeq(input, 1, colon - 1)
              IN  IF colon # Len(input) + 1 /\ colon + 1 # Len(input) + 1
                  THEN [address |-> address,
                        port_part |-> SubSeq(input, colon + 1, Len(input)),
                        consumed |-> TRUE]
                  ELSE [address |-> address, port_part |-> << >>,
                        consumed |-> (colon = Len(input) + 1)]

\* Host::Host(const std::string& in)
HostFromString(in) ==
    LET input == trimmed_copy(in)
    IN  IF input = << >> THEN DefaultHost(in)
        ELSE LET p == ParseInput(input)
                 all_digits == \A k \in DOMAIN p.port_part : isdigit(p.port_part[k])
                 port == IF p.consumed /\ p.port_part # << >>
                         THEN IF all_digits THEN atoi(p.port_part) ELSE -1
                         ELSE InvalidPort
             IN  [org_input |-> in,
                  address |-> p.address,
                  port |-> port,
                  type |-> IF p.consumed
                           THEN set_type(p.address, port, p.port_part # << >>)
                           ELSE "Invalid"]

\* Host::Host(const std::string& addr, int port)
HostFromAddrPort(addr, port) ==
    [org_input |-> addr,
     address |-> addr,
     port |-> port,
     type |-> IF addr # << >> /\ Front(addr) # "["
              THEN set_type(addr, port, FALSE)
              ELSE "Invalid"]

\* std::ostream& operator<<(std::ostream& os, const Host& host)
HostText(h) ==
    CASE h.type = "Invalid" ->
            << "I", "N", "V", "A", "L", "I", "D", " ", "i", "n", "p", "u", "t",
               ":", " ", "'" >> \o h.org_input
            \o << "'", " ", "p", "a", "r", "s", "e", "d", " ", "t", "o", " " >>
            \o h.address \o << ":" >> \o IntText(h.port)
      [] h.type = "UnixDomainSocket" -> h.address
      [] h.type \in {"HostName", "IPV4"} -> h.address \o << ":" >> \o IntText(h.port)
      [] h.type = "IPV6" -> << "[" >> \o h.address \o << "]", ":" >> \o IntText(h.port)

\* The texts the inputs are assembled from.
AddrTexts ==
    { << >>,
      << "d", "b" >>, << "_", "d", "b" >>, << "d", "-", "b" >>,
      << "1", ".", "2", ".", "3", ".", "4" >>, << "1", ".", "2", ".", "3" >>,
      << ":", ":", "1" >>,
      << "/", "s" >>, << "/", "s", "/" >>, << "/", "a", ":", "b" >>,
      << "/", "s", " ", "t" >> }
OpenTexts == { << >>, << "[" >> }
CloseTexts == { << >>, << "]" >>, << "]", "x" >> }
NumericPortTexts ==
    { << ":", "8", "0" >>, << ":", "0" >>, << ":", "0", "8", "0" >>,
      << ":", "6", "5", "5", "3", "5" >>, << ":", "6", "5", "5", "3", "6" >> }
OtherPortTexts == { << ":", "8", "x" >>, << ":", "8", "0", ":", "1" >> }
PortTexts == { << >>, << ":" >> } \cup NumericPortTexts \cup OtherPortTexts
PadTexts == { << >>, << " " >> }
PortNumbers == {-1, 0, 1, 80, 65535, 65536}

TextInputs ==
    [kind : {"text"}, pre : PadTexts, open : OpenTexts, addr : AddrTexts,
     close : CloseTexts, port : PortTexts, post : PadTexts]

PairInputs ==
    [kind : {"pair"}, pad : PadTexts, open : OpenTexts, addr : AddrTexts,
     port : PortNumbers]

\* The text a text input stands for.
InputText(i) == i.pre \o i.open \o i.addr \o i.close \o i.port \o i.post

\* The address argument a pair input stands for.
InputAddr(i) == i.open \o i.addr \o i.pad

NoHost == DefaultHost(<< >>)

InitHost ==
    /\ h_input \in TextInputs \cup PairInputs
    /\ h_pc = "new"
    /\ host = NoHost
    /\ h_text = << >>
    /\ host2 = NoHost

IdleHost ==
    /\ h_input = [kind |-> "none"]
    /\ h_pc = "none"
    /\ host = NoHost
    /\ h_text = << >>
    /\ host2 = NoHost

\* Host host(text);
ConstructFromString ==
    /\ unit = "host"
    /\ h_pc = "new"
    /\ h_input.kind = "text"
    /\ host' = HostFromString(InputText(h_input))
    /\ h_pc' = "built"
    /\ UNCHANGED <<unit, h_input, h_text, host2>>
    /\ UNCHANGED <<connVars, decVars, trimVars, queryVars, pcreVars>>

\* Host host(addr, port);
ConstructFromAddrPort ==
    /\ unit = "host"
    /\ h_pc = "new"
    /\ h_input.kind = "pair"
    /\ host' = HostFromAddrPort(InputAddr(h_input), h_input.port)
    /\ h_pc' = "built"
    /\ UNCHANGED <<unit, h_input, h_text, host2>>
    /\ UNCHANGED <<connVars, decVars, trimVars, queryVars, pcreVars>>

\* os << host;
PrintHost ==
    /\ unit = "host"
    /\ h_pc = "built"
    /\ h_text' = HostText(host)
    /\ h_pc' = "printed"
    /\ UNCHANGED <<unit, h_input, host, host2>>
    /\ UNCHANGED <<connVars, decVars, trimVars, queryVars, pcreVars>>

\* Host host2(text), text being what was printed
ReparseHost ==
    /\ unit = "host"
    /\ h_pc = "printed"
    /\ host2' = HostFromString(h_text)
    /\ h_pc' = "reparsed"
    /\ UNCHANGED <<unit, h_input, host, h_text>>
    /\ UNCHANGED <<connVars, decVars, trimVars, queryVars, pcreVars>>

NextHost == ConstructFromString \/ ConstructFromAddrPort \/ PrintHost \/ ReparseHost

\* What the data model asks of a Host.
TypeRespectsShape(h) ==
    /\ h.type = "UnixDomainSocket" =>
          /\ h.address # << >>
          /\ h.address[1] = "/"
          /\ h.address[Len(h.address)] # "/"
    /\ h.type \in {"HostName", "IPV4", "IPV6"} => (0 < h.port /\ h.port < 65536)

\* An address text that has the shape of a host name or of an IP address.
WellFormedAddr(a) == is_valid_ipv4(a) \/ is_valid_ipv6(a) \/ is_valid_hostname(a)

\* C6: a Host built by either constructor is a UnixDomainSocket only if its
\* address starts with '/' and does not end with '/', and a HostName, IPV4 or
\* IPV6 only if 0 < port < 65536; a well-formed host name or IP with no port
\* text, a port text that is not a number, and a socket-shaped address
\* followed by a port text are Invalid.
C6_TypeInvariant ==
    /\ h_pc \in {"built", "printed", "reparsed"} => TypeRespectsShape(host)
    /\ h_pc = "reparsed" => TypeRespectsShape(host2)
    /\ (h_pc \in {"built", "printed", "reparsed"} /\ h_input.kind = "text") =>
          /\ (WellFormedAddr(h_input.addr) /\ h_input.port = << >>)
                => host.type = "Invalid"
          /\ h_input.port \in OtherPortTexts => host.type = "Invalid"
          /\ (is_valid_socket(h_input.addr) /\ Len(h_input.port) > 1)
                => host.type = "Invalid"

\* C6 witness: the host name "db" with no port text was parsed and is Invalid.
C6_Witness ==
    /\ h_pc = "built"
    /\ h_input.kind = "text"
    /\ InputText(h_input) = << "d", "b" >>
    /\ host.address = << "d", "b" >>
    /\ host.type = "Invalid"

\* C7: every Host that is not Invalid, however it was built, is equal in
\* type, address and port to the Host parsed from its printed text.
C7_RoundTrip ==
    (h_pc = "reparsed" /\ host.type # "Invalid") =>
        /\ host2.type = host.type
        /\ host2.address = host.address
        /\ host2.port = host.port

-----------------------------------------------------------------------------
(***************************************************************************)
(* mxs_mysql_trim_quotes                                                   *)
(***************************************************************************)

\* The longest string passed to mxs_mysql_trim_quotes.
MaxStrLen == 4

\* The double quote and the backtick characters.
DQUOTE == "DQUOTE"
BQUOTE == "BQUOTE"

TrimChars == {" ", "'", BQUOTE, DQUOTE, "a"}
QuoteChars == {"'", DQUOTE, BQUOTE}

TrimInputs == UNION { [1..n -> TrimChars] : n \in 0..MaxStrLen }

\* The C string a buffer holds: its characters before the first NUL.
CStr(buf) ==
    IF \E k \in DOMAIN buf : buf[k] = NUL
    THEN SubSeq(buf, 1, Find(buf, NUL) - 1)
    ELSE buf

\* memmove(s, s + (from - 1), n) on a buffer indexed from 1
memmove(buf, from, n) ==
    [k \in DOMAIN buf |-> IF k <= n THEN buf[from + k - 1] ELSE buf[k]]

\* mxs_mysql_trim_quotes(s): the buffer afterwards and the value returned.
trim_quotes(s) ==
    LET strlen == Len(CStr(s))
        \* while (*i && isspace(*i)) ++i;
        i == CHOOSE k \in 1..(strlen + 1) :
                 /\ ~(s[k] # NUL /\ isspace(s[k]))
                 /\ \A j \in 1..(k - 1) : s[j] # NUL /\ isspace(s[j])
    IN  IF s[i] # NUL
        THEN LET \* while (isspace(*(end - 1))) { *(end - 1) = 0; --end; }
                 end == CHOOSE e \in (i + 1)..(strlen + 1) :
                            /\ ~isspace(s[e - 1])
                            /\ \A j \in e..strlen : isspace(s[j])
                 s1 == [k \in DOMAIN s |-> IF k >= end /\ k <= strlen THEN NUL ELSE s[k]]
                 quote == IF s1[i] \in QuoteChars THEN s1[i] ELSE NUL
             IN  IF quote # NUL
                 THEN \* ++i; --end;
                      IF s1[end - 1] = quote
                      THEN LET s2 == [s1 EXCEPT ![end - 1] = NUL]
                           IN  [s |-> memmove(s2, i + 1, (end - 1) - (i + 1) + 1),
                                ret |-> TRUE]
                      ELSE [s |-> s1, ret |-> FALSE]
                 ELSE IF i # 1
                      THEN [s |-> memmove(s1, i, end - i + 1), ret |-> TRUE]
                      ELSE [s |-> s1, ret |-> TRUE]
        ELSE [s |-> [s EXCEPT ![1] = NUL], ret |-> TRUE]

InitTrim ==
    /\ tq_in \in TrimInputs
    /\ tq_pc = "call"
    /\ tq_s = tq_in \o << NUL >>
    /\ tq_ret = TRUE

IdleTrim ==
    /\ tq_in = << >>
    /\ tq_pc = "none"
    /\ tq_s = << NUL >>
    /\ tq_ret = TRUE

\* bool ok = mxs_mysql_trim_quotes(s);
TrimQuotesCall ==
    /\ unit = "trim"
    /\ tq_pc = "call"
    /\ LET r == trim_quotes(tq_s)
       IN  tq_s' = r.s /\ tq_ret' = r.ret
    /\ tq_pc' = "done"
    /\ UNCHANGED <<unit, tq_in>>
    /\ UNCHANGED <<connVars, decVars, hostVars, queryVars, pcreVars>>

NextTrim == TrimQuotesCall

\* C8: when the whitespace-trimmed input starts with a quote character and
\* does not end with that same character, the call returns false and leaves
\* the input with its leading and trailing whitespace removed, quotes intact.
C8_MismatchKeepsTrimmedText ==
    LET t == trimmed_copy(tq_in)
    IN  (/\ tq_pc = "done"
         /\ t # << >>
         /\ t[1] \in QuoteChars
         /\ t[Len(t)] # t[1])
        => (tq_ret = FALSE /\ CStr(tq_s) = t)

-----------------------------------------------------------------------------
(***************************************************************************)
(* maxscale::execute_query                                                 *)
(***************************************************************************)

Queries == { << "S", "E", "L" >>, << "S", "E", "T" >> }

NoError == [errno |-> 0, error |-> << >>]

\* What mysql_errno and mysql_error report after a failure.
ServerErrors ==
    { [errno |-> 1064, error |-> << "s", "y", "n" >>],
      [errno |-> 2013, error |-> << "l", "o", "s", "t" >>] }

\* The contents the caller's variables may have before the first call.
OldMessages == { << >>, << "o", "l", "d" >> }
OldNumbers == {0, 7}

\* mxb::string_printf("Query '%s' failed: '%s'.", query, mysql_error(conn))
FailureMessage(query, error) ==
    << "Q", "u", "e", "r", "y", " ", "'" >> \o query
    \o << "'", " ", "f", "a", "i", "l", "e", "d", ":", " ", "'" >> \o error
    \o << "'", "." >>

\* A result taken for fetched as soon as the query went through.
HasResult_QueryOnly(rc, stored) == rc = 0

\* mxs_mysql_query(conn, query) == 0 && (result = mysql_store_result(conn)) != NULL
HasResult(rc, stored) == rc = 0 /\ stored

InitQuery ==
    /\ q_conn = NoError
    /\ q_errmsg \in OldMessages
    /\ q_errno \in OldNumbers
    /\ q_last = [made |-> FALSE]

IdleQuery ==
    /\ q_conn = NoError
    /\ q_errmsg = << >>
    /\ q_errno = 0
    /\ q_last = [made |-> FALSE]

\* One call of execute_query(conn, query, errmsg_out, errno_out).
\* rc: what mxs_mysql_query returns; stored: mysql_store_result returns a
\* result; err: the connection's error after them; msgPtr, noPtr: whether
\* errmsg_out and errno_out are given.
ExecuteQuery ==
    /\ unit = "query"
    /\ \E query \in Queries, rc \in {0, 1}, stored \in BOOLEAN,
          err \in ServerErrors \cup {NoError},
          msgPtr \in BOOLEAN, noPtr \in BOOLEAN :
          \* a failed query leaves an error; a fetched result leaves none;
          \* mysql_store_result is called only after a query that went through
          /\ rc # 0 => (err # NoError /\ ~stored)
          /\ (rc = 0 /\ stored) => err = NoError
          /\ q_conn' = err
          /\ IF HasResult(rc, stored)
             THEN UNCHANGED <<q_errmsg, q_errno>>
             ELSE /\ q_errmsg' = IF msgPtr THEN FailureMessage(query, err.error)
                                 ELSE q_errmsg
                  /\ q_errno' = IF noPtr THEN err.errno ELSE q_errno
          /\ q_last' = [made |-> TRUE, query |-> query, rc |-> rc,
                        stored |-> stored, msgPtr |-> msgPtr, noPtr |-> noPtr,
                        errmsg_was |-> q_errmsg, errno_was |-> q_errno,
                        rval |-> IF HasResult(rc, stored) THEN "result" ELSE "null"]
    /\ UNCHANGED unit
    /\ UNCHANGED <<connVars, decVars, hostVars, trimVars, pcreVars>>

NextQuery == ExecuteQuery

\* C9 as claimed: a handle is returned whenever the query primitive reports
\* success; whenever none is returned the error outputs carry the formatted
\* message and the error number of the failure; whenever a handle is returned
\* the error outputs are left unwritten.
C9_AsClaimed ==
    q_last.made =>
        /\ q_last.rc = 0 => q_last.rval = "result"
        /\ q_last.rval = "null" =>
              /\ q_errmsg = FailureMessage(q_last.query, q_conn.error)
              /\ q_errno = q_conn.errno
        /\ q_last.rval = "result" =>
              /\ q_errmsg = q_last.errmsg_was
              /\ q_errno = q_last.errno_was

\* C9 amended: a handle is returned exactly when the query primitive reports
\* success and mysql_store_result returns a result; otherwise none is
\* returned and each error output the caller supplied holds the formatted
\* message, respectively the connection's error number (0 when the statement
\* produced no result set), an output not supplied being left as it was; when
\* a handle is returned both outputs are left unwritten.
C9_Amended ==
    q_last.made =>
        /\ q_last.rval = "result" <=> (q_last.rc = 0 /\ q_last.stored)
        /\ q_last.rval = "null" =>
              /\ q_errmsg = IF q_last.msgPtr
                            THEN FailureMessage(q_last.query, q_conn.error)
                            ELSE q_last.errmsg_was
              /\ q_errno = IF q_last.noPtr THEN q_conn.errno ELSE q_last.errno_was
        /\ q_last.rval = "result" =>
              /\ q_errmsg = q_last.errmsg_was
              /\ q_errno = q_last.errno_was

\* C9 witness: the query went through, mysql_store_result returned NULL with
\* no error, and the call returned no handle and wrote both outputs.
C9_Witness ==
    /\ q_last.made
    /\ q_last.rc = 0 /\ ~q_last.stored
    /\ q_last.rval = "null"
    /\ q_last.msgPtr /\ q_last.noPtr
    /\ q_conn = NoError
    /\ q_errno = 0
    /\ q_errmsg = FailureMessage(q_last.query, << >>)

-----------------------------------------------------------------------------
(***************************************************************************)
(* mxs_mysql_name_to_pcre                                                  *)
(***************************************************************************)

\* The longest pattern passed to mxs_mysql_name_to_pcre.
MaxPatLen == 3

PatChars == {"a", "_", "%", ".", "'", "*"}
PcreMetaChars ==
    {"'", "^", ".", "$", "|", "(", ")", "[", "]", "*", "+", "?", "{", "}"}

\* The backslash character.
BSLASH == "BSLASH"

\* What the output buffer may hold before the call.
StaleChars == {"#", NUL}

Patterns == UNION { [1..n -> PatChars] : n \in 0..MaxPatLen }

\* The loop of mxs_mysql_name_to_pcre from character k of the pattern on;
\* st.pos is where 'pcre' points (from 1).
RECURSIVE name_to_pcre(_, _, _, _)
name_to_pcre(mysql, approach, k, st) ==
    IF k > Len(mysql)
    THEN \* *pcre = 0;
         [st EXCEPT !.pcre[st.pos] = NUL,
                    !.written = @ \cup {st.pos}]
    ELSE LET ch == mysql[k]
         IN  CASE ch = "%" ->
                    IF approach = "MXS_PCRE_QUOTE_WILDCARD"
                    THEN name_to_pcre(mysql, approach, k + 1,
                            [pcre |-> [st.pcre EXCEPT ![st.pos] = ".",
                                                      ![st.pos + 1] = "*"],
                             written |-> st.written \cup {st.pos, st.pos + 1},
                             pos |-> st.pos + 2,
                             rv |-> "MXS_MYSQL_NAME_WITH_WILDCARD"])
                    ELSE name_to_pcre(mysql, approach, k + 1,
                            [st EXCEPT !.pos = st.pos + 1,
                                       !.rv = "MXS_MYSQL_NAME_WITH_WILDCARD"])
               [] ch \in PcreMetaChars ->
                    name_to_pcre(mysql, approach, k + 1,
                            [st EXCEPT !.pcre[st.pos] = BSLASH,
                                       !.pcre[st.pos + 1] = ch,
                                       !.written = @ \cup {st.pos, st.pos + 1},
                                       !.pos = st.pos + 2])
               [] OTHER ->
                    name_to_pcre(mysql, approach, k + 1,
                            [st EXCEPT !.pcre[st.pos] = ch,
                                       !.written = @ \cup {st.pos},
                                       !.pos = st.pos + 1])

InitPcre ==
    /\ p_mysql \in Patterns
    /\ p_approach \in {"MXS_PCRE_QUOTE_VERBATIM", "MXS_PCRE_QUOTE_WILDCARD"}
    /\ p_pc = "call"
    \* the caller's buffer: 2 characters for each one of the pattern, and 1
    /\ \E stale \in StaleChars : p_pcre = [k \in 1..(2 * Len(p_mysql) + 1) |-> stale]
    /\ p_written = {}
    /\ p_rv = "MXS_MYSQL_NAME_WITHOUT_WILDCARD"

IdlePcre ==
    /\ p_mysql = << >>
    /\ p_approach = "MXS_PCRE_QUOTE_VERBATIM"
    /\ p_pc = "none"
    /\ p_pcre = << NUL >>
    /\ p_written = {}
    /\ p_rv = "MXS_MYSQL_NAME_WITHOUT_WILDCARD"

\* rv = mxs_mysql_name_to_pcre(pcre, mysql, approach);
NameToPcreCall ==
    /\ unit = "pcre"
    /\ p_pc = "call"
    /\ LET r == name_to_pcre(p_mysql, p_approach, 1,
                   [pcre |-> p_pcre, written |-> {}, pos |-> 1,
                    rv |-> "MXS_MYSQL_NAME_WITHOUT_WILDCARD"])
       IN  /\ p_pcre' = r.pcre
           /\ p_written' = r.written
           /\ p_rv' = r.rv
    /\ p_pc' = "done"
    /\ UNCHANGED <<unit, p_mysql, p_approach>>
    /\ UNCHANGED <<connVars, decVars, hostVars, trimVars, queryVars>>

NextPcre == NameToPcreCall

\* What the translation of one character is said to be.
Translated(ch, approach) ==
    IF ch \in PcreMetaChars THEN << BSLASH, ch >>
    ELSE IF ch = "%" /\ approach = "MXS_PCRE_QUOTE_WILDCARD" THEN << ".", "*" >>
    ELSE << ch >>

RECURSIVE TranslatedAll(_, _)
TranslatedAll(mysql, approach) ==
    IF mysql = << >> THEN << >>
    ELSE Translated(Head(mysql), approach) \o TranslatedAll(Tail(mysql), approach)

\* C10: the output is the character-by-character translation of the pattern,
\* every position before the terminator is a character the call emitted, at
\* most 2 characters per input character and one terminator are written, and
\* a wildcard is reported exactly when the pattern holds a %.
C10_OutputDetermined ==
    p_pc = "done" =>
        /\ CStr(p_pcre) = TranslatedAll(p_mysql, p_approach)
        /\ \A k \in 1..(Len(CStr(p_pcre)) + 1) : k \in p_written
        /\ Cardinality(p_written) <= 2 * Len(p_mysql) + 1
        /\ (p_rv = "MXS_MYSQL_NAME_WITH_WILDCARD")
              <=> (\E k \in DOMAIN p_mysql : p_mysql[k] = "%")

-----------------------------------------------------------------------------
(***************************************************************************)
(* The specifications                                                      *)
(***************************************************************************)

InitOfConnect ==
    /\ unit = "connect"
    /\ InitConnect /\ IdleDecode /\ IdleHost /\ IdleTrim /\ IdleQuery /\ IdlePcre

InitOfDecode ==
    /\ unit = "decode"
    /\ IdleConnect /\ InitDecode /\ IdleHost /\ IdleTrim /\ IdleQuery /\ IdlePcre

InitOfHost ==
    /\ unit = "host"
    /\ IdleConnect /\ IdleDecode /\ InitHost /\ IdleTrim /\ IdleQuery /\ IdlePcre

InitOfTrim ==
    /\ unit = "trim"
    /\ IdleConnect /\ IdleDecode /\ IdleHost /\ InitTrim /\ IdleQuery /\ IdlePcre

InitOfQuery ==
    /\ unit = "query"
    /\ IdleConnect /\ IdleDecode /\ IdleHost /\ IdleTrim /\ InitQuery /\ IdlePcre

InitOfPcre ==
    /\ unit = "pcre"
    /\ IdleConnect /\ IdleDecode /\ IdleHost /\ IdleTrim /\ IdleQuery /\ InitPcre

Init ==
    InitOfConnect \/ InitOfDecode \/ InitOfHost \/ InitOfTrim \/ InitOfQuery \/ InitOfPcre

Next == NextConnect \/ NextDecode \/ NextHost \/ NextTrim \/ NextQuery \/ NextPcre

Spec == Init /\ [][Next]_vars

SpecConnect == InitOfConnect /\ [][NextConnect]_vars
SpecDecode == InitOfDecode /\ [][NextDecode]_vars
SpecHost == InitOfHost /\ [][NextHost]_vars
SpecTrim == InitOfTrim /\ [][NextTrim]_vars
SpecQuery == InitOfQuery /\ [][NextQuery]_vars
SpecPcre == InitOfPcre /\ [][NextPcre]_vars
=============================================================================
